---- MODULE Spec2Model ----
(***************************************************************************)
(* neigh2route: a state-machine model of the neighbor manager (the store   *)
(* of reachable neighbors and the host routes it drives), of its readers,  *)
(* of the shutdown path and of the NA sniffer manager.                     *)
(***************************************************************************)
EXTENDS Integers, Sequences, FiniteSets, TLC

VARIABLES
    alive,                 \* FALSE once os.Exit was called
    targetInterfaceIndex,  \* nm.targetInterfaceIndex
    reachableNeighbors,    \* nm.reachableNeighbors: key (ip.String()) -> Neighbor
    mu,                    \* nm.mu: "free" or the thread that holds it
    routes,                \* host routes in the kernel: <<ip, linkIndex>>
    pc,                    \* position of every goroutine of the engine
    call,                  \* arguments and locals of the running AddNeighbor/RemoveNeighbor
    update,                \* the neighbor entry being processed (event or listed entry)
    loadLeft,              \* entries of the initial NeighList still to visit
    listed,                \* history: entries of the initial NeighList visited so far
    trace,                 \* what the processing of the current entry did, in order
    store0,                \* reachableNeighbors when the running call started
    rmFailed,              \* some RemoveRoute call returned an error
    copyMap,               \* per reader: the map ListNeighbors builds
    resultRef,             \* per reader: which map ListNeighbors handed back
    seenAtLock,            \* per reader: reachableNeighbors when it took the lock
    cleanupTodo,           \* Cleanup: keys of the range loop not yet visited
    cleanupLog,            \* Cleanup: the RemoveRoute calls made, in order
    present,               \* tap interfaces listed under /sys/class/net
    activeSniffers,        \* sniffer.activeSniffers: interface -> SnifferInfo
    pcS,                   \* position of StartSnifferManager
    currentSet,            \* StartSnifferManager: currentSet of the running scan
    clock,                 \* time.Now(), counted in scans
    scan0,                 \* registry, cancel counts and workers when the scan started
    workers,               \* the sniffNAWithContext goroutines, by context
    cancelCalls,           \* per context: invocations of its CancelFunc
    kneigh,                \* kernel IPv6 neighbor table: <<ip, link>> -> state
    injected,              \* entries written with netlink.NeighSet
    written                \* history: what the kernel held at each NeighSet call

readerVars == <<copyMap, resultRef, seenAtLock>>
sigVars == <<cleanupTodo, cleanupLog>>
scanVars == <<present, activeSniffers, pcS, currentSet, clock, scan0, workers, cancelCalls>>
kernelVars == <<kneigh, injected, written>>
snifferVars == <<scanVars, kernelVars>>
engineVars == <<alive, targetInterfaceIndex, reachableNeighbors, mu, routes, pc, call,
                update, loadLeft, listed, trace, store0, rmFailed, readerVars, sigVars>>

vars == <<engineVars, snifferVars>>

----------------------------------------------------------------------------
\* Bounds of the model.
MaxInit == 2
MaxScans == 3
MaxWorkers == 2

\* sniffNAWithContext, line 124: the attempts of the wait for the interface.
MaxAttempts == 10

----------------------------------------------------------------------------
\* Values.

RECURSIVE BitAnd(_, _)
BitAnd(a, b) ==
    IF a = 0 \/ b = 0 THEN 0
    ELSE (a % 2) * (b % 2) + 2 * BitAnd(a \div 2, b \div 2)

NUD_REACHABLE == 2
NUD_STALE == 4
NUD_DELAY == 8
NUD_PROBE == 16
NUD_FAILED == 32
NTF_EXT_LEARNED == 16

\* An address: family and its first two bytes (enough for the scope test).
NilIP == [fam |-> 0, b0 |-> 0, b1 |-> 0]
ipV4 == [fam |-> 4, b0 |-> 10, b1 |-> 10]
ipV6 == [fam |-> 6, b0 |-> 32, b1 |-> 1]
ipLL4 == [fam |-> 4, b0 |-> 169, b1 |-> 254]
ipLL6 == [fam |-> 6, b0 |-> 254, b1 |-> 128]

IPs == {ipV4, ipV6, ipLL4, ipLL6}
Links == {1, 2}
States == {NUD_REACHABLE, NUD_STALE, NUD_DELAY, NUD_PROBE, NUD_FAILED}
FlagValues == {0, NTF_EXT_LEARNED}

\* netlink.Neigh, as far as the manager reads it.
Entries == [IP : IPs \cup {NilIP}, LinkIndex : Links, State : States, Flags : FlagValues]
NoEntry == [IP |-> NilIP, LinkIndex |-> 0, State |-> 0, Flags |-> 0]

\* ip.String(), the key of the store.
String(ip) ==
    CASE ip = ipV4 -> "10.10.10.10"
      [] ip = ipV6 -> "2001:db8::1"
      [] ip = ipLL4 -> "169.254.0.1"
      [] ip = ipLL6 -> "fe80::1"
      [] OTHER -> "<nil>"

\* net.IP.IsLinkLocalUnicast: 169.254.0.0/16 and fe80::/10.
IsLinkLocalUnicast(ip) ==
    \/ ip.fam = 4 /\ ip.b0 = 169 /\ ip.b1 = 254
    \/ ip.fam = 6 /\ ip.b0 = 254 /\ BitAnd(ip.b1, 192) = 128

Neighbor(ip, linkIndex) == [IP |-> ip, LinkIndex |-> linkIndex]
NoNeighbor == [IP |-> NilIP, LinkIndex |-> 0]

\* Lines 90-92.
LinkIndexChanged_Never(n, linkIndex) == FALSE

LinkIndexChanged_Always(n, linkIndex) == TRUE

LinkIndexChanged(n, linkIndex) == n.LinkIndex # linkIndex

isNeighborExternallyLearned(flags) == BitAnd(flags, NTF_EXT_LEARNED) # 0

\* Go map operations on a function whose domain is the key set.
MapPut(m, k, v) == [x \in DOMAIN m \cup {k} |-> IF x = k THEN v ELSE m[x]]
MapDelete(m, k) == [x \in DOMAIN m \ {k} |-> m[x]]
EmptyMap == [x \in {} |-> NoNeighbor]

\* netutils.AddRoute / netutils.RemoveRoute: the route table after the call,
\* ok being whether the call returns nil.
AddRoute(rt, ip, linkIndex, ok) == IF ok THEN rt \cup {<<ip, linkIndex>>} ELSE rt
RemoveRoute(rt, ip, linkIndex, ok) == IF ok THEN rt \ {<<ip, linkIndex>>} ELSE rt

\* Names under /sys/class/net; getTapInterfaces keeps those matching ^tap\d+.
TapNames == {"tap0", "tap1"}
OtherNames == {"eth0"}
IsTap(name) == name \in TapNames

\* The routable IPv6 addresses, and the keys of the kernel's neighbor table.
KernelKeys == {ipV6} \X Links
KernelStates == {0, NUD_REACHABLE, NUD_STALE, NUD_DELAY, NUD_PROBE, NUD_FAILED}

\* The goroutines that keep what ListNeighbors returned: the HTTP handlers.
Readers == {"api"}

NoCall == [op |-> "none", ip |-> NilIP, linkIndex |-> 0, neighbor |-> NoNeighbor,
           shouldRemoveRoute |-> FALSE, caller |-> "none"]

Step(op, ip, linkIndex, ok) == [op |-> op, ip |-> ip, linkIndex |-> linkIndex, ok |-> ok]

----------------------------------------------------------------------------
\* NewNeighborManager: the interface is unbound (-1) or resolved to an index.
\* With --sniffer, main() insists on --interface, so the index is resolved.
EngineInitAt(sniffer, at) ==
    /\ alive = TRUE
    /\ targetInterfaceIndex \in (IF sniffer THEN {1} ELSE {-1, 1})
    /\ reachableNeighbors = EmptyMap
    /\ mu = "free"
    /\ routes = {}
    /\ pc = [main |-> at, pinger |-> "NotStarted", api |-> "NotStarted",
             sig |-> "NotStarted"]
    /\ call = NoCall
    /\ update = NoEntry
    /\ loadLeft = 0
    /\ listed = {}
    /\ trace = << >>
    /\ store0 = EmptyMap
    /\ rmFailed = FALSE
    /\ copyMap = [r \in Readers |-> EmptyMap]
    /\ resultRef = [r \in Readers |-> "none"]
    /\ seenAtLock = [r \in Readers |-> EmptyMap]
    /\ cleanupTodo = {}
    /\ cleanupLog = << >>

EngineInit(sniffer) == EngineInitAt(sniffer, "NeighList")

NoScan == [reg |-> << >>, cancels |-> << >>, nworkers |-> 0]

\* The sniffer state when main() starts; pcS is "Off" without --sniffer, and
\* /sys/class/net is then never read.
SnifferInit(sniffer) ==
    /\ present \in (IF sniffer THEN SUBSET TapNames ELSE {{}})
    /\ activeSniffers = << >>
    /\ pcS = IF sniffer THEN "List" ELSE "Off"
    /\ currentSet = {}
    /\ clock = 0
    /\ scan0 = NoScan
    /\ workers = << >>
    /\ cancelCalls = << >>
    /\ kneigh = [k \in KernelKeys |-> 0]
    /\ injected = {}
    /\ written = {}

Init == EngineInit(FALSE) /\ SnifferInit(FALSE)

\* os.Exit: the process and its memory are gone, the kernel keeps the routes.
Exited ==
    /\ alive' = FALSE
    /\ reachableNeighbors' = EmptyMap
    /\ mu' = "free"
    /\ pc' = [main |-> "Exited", pinger |-> "Exited", api |-> "Exited", sig |-> "Exited"]
    /\ call' = NoCall
    /\ update' = NoEntry
    /\ loadLeft' = 0
    /\ listed' = {}
    /\ trace' = << >>
    /\ store0' = EmptyMap
    /\ copyMap' = [r \in Readers |-> EmptyMap]
    /\ resultRef' = [r \in Readers |-> "none"]
    /\ seenAtLock' = [r \in Readers |-> EmptyMap]
    /\ cleanupTodo' = {}
    /\ cleanupLog' = << >>
    /\ UNCHANGED <<targetInterfaceIndex, routes, rmFailed, snifferVars>>

Goto(t, l) == pc' = [pc EXCEPT ![t] = l]

----------------------------------------------------------------------------
\* AddNeighbor(ip, linkIndex), run by the main goroutine.

\* Lines 185 and 234: the entry is to be added.
ShouldAdd_AnyFlags(n) == BitAnd(n.State, NUD_REACHABLE + NUD_STALE) # 0

ShouldAdd(n) ==
    /\ BitAnd(n.State, NUD_REACHABLE + NUD_STALE) # 0
    /\ ~isNeighborExternallyLearned(n.Flags)

\* Line 238: the entry is to be removed.
ShouldRemove_NotReachable(n) ==
    \/ BitAnd(n.State, NUD_REACHABLE) = 0
    \/ isNeighborExternallyLearned(n.Flags)

ShouldRemove(n) ==
    \/ n.State = NUD_FAILED
    \/ isNeighborExternallyLearned(n.Flags)

CallRemove(ip, linkIndex, tr) ==
    /\ call' = [NoCall EXCEPT !.op = "Remove", !.ip = ip, !.linkIndex = linkIndex,
                              !.caller = "update"]
    /\ store0' = reachableNeighbors
    /\ trace' = Append(tr, Step("Remove", ip, linkIndex, TRUE))
    /\ Goto("main", "RemoveLock")

CallAdd(ip, linkIndex, caller, tr) ==
    /\ call' = [NoCall EXCEPT !.op = "Add", !.ip = ip, !.linkIndex = linkIndex,
                              !.caller = caller]
    /\ store0' = reachableNeighbors
    /\ trace' = Append(tr, Step("Add", ip, linkIndex, TRUE))
    /\ Goto("main", "AddLock")

\* Lines 99-108: an address already in the store has its old route removed.
AfterLookup_NoRemove(exists) == "AddStore"

AfterLookup(exists) == IF exists THEN "AddRemoveOld" ELSE "AddStore"

\* Lines 97-106: lock, look the address up, return early when nothing changed.
AddLock ==
    /\ alive /\ pc.main = "AddLock" /\ mu = "free"
    /\ LET key == String(call.ip)
           exists == key \in DOMAIN reachableNeighbors
           neighbor == IF exists THEN reachableNeighbors[key] ELSE NoNeighbor
       IN  IF exists /\ ~LinkIndexChanged(neighbor, call.linkIndex)
           THEN /\ mu' = "free"
                /\ Goto("main", "AddDone")
                /\ UNCHANGED call
           ELSE /\ mu' = "main"
                /\ call' = [call EXCEPT !.neighbor = neighbor, !.shouldRemoveRoute = exists]
                /\ Goto("main", AfterLookup(exists))
    /\ UNCHANGED <<alive, targetInterfaceIndex, reachableNeighbors, routes, update,
                   loadLeft, listed, trace, store0, rmFailed,
                   readerVars, sigVars, snifferVars>>

\* Lines 110-113: where AddNeighbor goes after removing the old route.
AfterRemoveOld_NoReturn(ok) == "AddStore"

AfterRemoveOld(ok) == IF ok THEN "AddStore" ELSE "AddDone"

\* Lines 108-114: the old route is removed; on an error the function returns.
AddRemoveOld ==
    /\ alive /\ pc.main = "AddRemoveOld"
    /\ \E ok \in BOOLEAN :
        /\ routes' = RemoveRoute(routes, call.ip, call.neighbor.LinkIndex, ok)
        /\ trace' = Append(trace, Step("RemoveRoute", call.ip, call.neighbor.LinkIndex, ok))
        /\ rmFailed' = (rmFailed \/ ~ok)
        /\ Goto("main", AfterRemoveOld(ok))
    /\ UNCHANGED <<alive, targetInterfaceIndex, reachableNeighbors, mu, call, update,
                   loadLeft, listed, store0,
                   readerVars, sigVars, snifferVars>>

\* Lines 116-117: the entry is written and the lock released.
AddStore ==
    /\ alive /\ pc.main = "AddStore"
    /\ reachableNeighbors' = MapPut(reachableNeighbors, String(call.ip),
                                    Neighbor(call.ip, call.linkIndex))
    /\ mu' = "free"
    /\ trace' = Append(trace, Step("Store", call.ip, call.linkIndex, TRUE))
    /\ Goto("main", "AddRoute")
    /\ UNCHANGED <<alive, targetInterfaceIndex, routes, call, update, loadLeft, listed, store0, rmFailed,
                   readerVars, sigVars, snifferVars>>

\* Lines 119-122: a failed installation is logged; the store stays as written.
AfterInstall_Rollback(m, k, ok) == IF ok THEN m ELSE [x \in DOMAIN m \ {k} |-> m[x]]

AfterInstall(m, k, ok) == m

\* Lines 119-124: the new route is installed, outside the lock.
AddInstall ==
    /\ alive /\ pc.main = "AddRoute"
    /\ \E ok \in BOOLEAN :
        /\ routes' = AddRoute(routes, call.ip, call.linkIndex, ok)
        /\ reachableNeighbors' = AfterInstall(reachableNeighbors, String(call.ip), ok)
        /\ trace' = Append(trace, Step("AddRoute", call.ip, call.linkIndex, ok))
    /\ Goto("main", "AddDone")
    /\ UNCHANGED <<alive, targetInterfaceIndex, mu, call, update,
                   loadLeft, listed, store0, rmFailed,
                   readerVars, sigVars, snifferVars>>

\* AddNeighbor has returned: InitializeNeighborTable goes on with its loop
\* (line 174), processNeighborUpdate with its second test (lines 238-240).
AddReturn ==
    /\ alive /\ pc.main = "AddDone"
    /\ IF call.caller = "update" /\ ShouldRemove(update)
       THEN /\ CallRemove(update.IP, update.LinkIndex, trace)
            /\ UNCHANGED update
       ELSE /\ Goto("main", IF call.caller = "init" THEN "InitLoop" ELSE "Streaming")
            /\ call' = NoCall
            /\ store0' = EmptyMap
            /\ update' = NoEntry
            /\ trace' = << >>
    /\ UNCHANGED <<alive, targetInterfaceIndex, reachableNeighbors, mu, routes, loadLeft, listed,
                   rmFailed, readerVars, sigVars, snifferVars>>

----------------------------------------------------------------------------
\* RemoveNeighbor(ip, linkIndex), run by the main goroutine.

\* Line 131: the address has an entry, whatever link index was passed in.
Tracked_SameLink(m, k, linkIndex) == k \in DOMAIN m /\ m[k].LinkIndex = linkIndex

Tracked(m, k, linkIndex) == k \in DOMAIN m

\* Lines 131-138: the route is withdrawn only when an entry was deleted.
AfterDelete_Always(exists) == "RemoveRoute"

AfterDelete(exists) == IF exists THEN "RemoveRoute" ELSE "RemoveDone"

\* Lines 130-136: under the lock the entry is deleted when present.
RemoveLock ==
    /\ alive /\ pc.main = "RemoveLock" /\ mu = "free"
    /\ LET key == String(call.ip)
           exists == Tracked(reachableNeighbors, key, call.linkIndex)
       IN  /\ reachableNeighbors' = IF exists THEN MapDelete(reachableNeighbors, key)
                                    ELSE reachableNeighbors
           /\ call' = [call EXCEPT !.shouldRemoveRoute = exists]
           /\ trace' = IF exists THEN Append(trace, Step("Delete", call.ip, call.linkIndex, TRUE))
                       ELSE trace
           /\ Goto("main", AfterDelete(exists))
    /\ UNCHANGED <<alive, targetInterfaceIndex, mu, routes, update, loadLeft, listed, store0, rmFailed,
                   readerVars, sigVars, snifferVars>>

\* Lines 138-143: the route of the link index passed in is withdrawn.
RemoveWithdraw ==
    /\ alive /\ pc.main = "RemoveRoute"
    /\ \E ok \in BOOLEAN :
        /\ routes' = RemoveRoute(routes, call.ip, call.linkIndex, ok)
        /\ trace' = Append(trace, Step("RemoveRoute", call.ip, call.linkIndex, ok))
        /\ rmFailed' = (rmFailed \/ ~ok)
    /\ Goto("main", "RemoveDone")
    /\ UNCHANGED <<alive, targetInterfaceIndex, reachableNeighbors, mu, call, update,
                   loadLeft, listed, store0,
                   readerVars, sigVars, snifferVars>>

\* RemoveNeighbor has returned, and processNeighborUpdate with it (line 207).
RemoveReturn ==
    /\ alive /\ pc.main = "RemoveDone"
    /\ Goto("main", "Streaming")
    /\ call' = NoCall
    /\ store0' = EmptyMap
    /\ update' = NoEntry
    /\ trace' = << >>
    /\ UNCHANGED <<alive, targetInterfaceIndex, reachableNeighbors, mu, routes, loadLeft, listed,
                   rmFailed, readerVars, sigVars, snifferVars>>

----------------------------------------------------------------------------
\* InitializeNeighborTable.

\* Lines 162-165: the link filter handed to NeighList (0 lists every link).
ListFilter == IF targetInterfaceIndex >= 0 THEN targetInterfaceIndex ELSE 0

\* Lines 167-172: NeighList fails (the load is given up) or lists some entries.
InitNeighList ==
    /\ alive /\ pc.main = "NeighList"
    /\ \/ /\ Goto("main", "MainStart")
          /\ UNCHANGED loadLeft
       \/ /\ \E n \in 0..MaxInit : loadLeft' = n
          /\ Goto("main", "InitLoop")
    /\ UNCHANGED <<listed, alive, targetInterfaceIndex, reachableNeighbors, mu, routes, call,
                   update, trace, store0, rmFailed,
                   readerVars, sigVars, snifferVars>>

\* Lines 175-183: an entry of the initial list is skipped.
InitSkips_Never(n) == FALSE

InitSkips(n) == n.IP = NilIP \/ IsLinkLocalUnicast(n.IP)

\* Lines 174-189: the next listed entry is visited.
InitLoop ==
    /\ alive /\ pc.main = "InitLoop" /\ loadLeft > 0
    /\ \E n \in Entries :
        /\ ListFilter # 0 => n.LinkIndex = ListFilter
        /\ loadLeft' = loadLeft - 1
        /\ listed' = listed \cup {n}
        /\ IF ~InitSkips(n) /\ ShouldAdd(n)
           THEN /\ update' = n
                /\ CallAdd(n.IP, n.LinkIndex, "init", << >>)
           ELSE UNCHANGED <<pc, call, store0, update, trace>>
    /\ UNCHANGED <<alive, targetInterfaceIndex, reachableNeighbors, mu, routes, rmFailed,
                   readerVars, sigVars, snifferVars>>

\* Lines 191-193: the load is over.
InitDone ==
    /\ alive /\ pc.main = "InitLoop" /\ loadLeft = 0
    /\ Goto("main", "MainStart")
    /\ listed' = {}
    /\ UNCHANGED <<alive, targetInterfaceIndex, reachableNeighbors, mu, routes, call,
                   update, loadLeft, trace, store0, rmFailed,
                   readerVars, sigVars, snifferVars>>

----------------------------------------------------------------------------
\* MonitorNeighbors and processNeighborUpdate.

\* Lines 198-205: the subscription is opened; a failure ends the process.
Subscribe ==
    /\ alive /\ pc.main = "Subscribe"
    /\ \/ /\ Goto("main", "Streaming")
          /\ UNCHANGED <<alive, targetInterfaceIndex, reachableNeighbors, mu, routes, call,
                         update, loadLeft, listed, trace, store0, rmFailed, readerVars, sigVars, snifferVars>>
       \/ Exited

\* Lines 218-229: the update is ignored.
UpdateIgnored_AnyLink(n) ==
    \/ n.IP = NilIP
    \/ IsLinkLocalUnicast(n.IP)

UpdateIgnored(n) ==
    \/ targetInterfaceIndex > 0 /\ n.LinkIndex # targetInterfaceIndex
    \/ n.IP = NilIP
    \/ IsLinkLocalUnicast(n.IP)

\* Lines 207-208 and 217-236: an update is received; it is ignored, or
\* AddNeighbor is called, or (lines 238-240) RemoveNeighbor, or nothing is.
Receive ==
    /\ alive /\ pc.main = "Streaming"
    /\ \E n \in Entries :
        IF UpdateIgnored(n) \/ (~ShouldAdd(n) /\ ~ShouldRemove(n))
        THEN UNCHANGED <<pc, call, update, trace, store0>>
        ELSE /\ update' = n
             /\ IF ShouldAdd(n)
                THEN CallAdd(n.IP, n.LinkIndex, "update", << >>)
                ELSE CallRemove(n.IP, n.LinkIndex, << >>)
    /\ UNCHANGED <<alive, targetInterfaceIndex, reachableNeighbors, mu, routes, loadLeft, listed,
                   rmFailed, readerVars, sigVars, snifferVars>>

\* Lines 209-214: after the range loop the for loop goes on; nothing returns.
AfterClose_Return == "Returned"

AfterClose == "Recovering"

\* Line 207: the updates channel is closed by the kernel side.
ChannelClosed ==
    /\ alive /\ pc.main = "Streaming"
    /\ Goto("main", AfterClose)
    /\ UNCHANGED <<alive, targetInterfaceIndex, reachableNeighbors, mu, routes, call,
                   update, loadLeft, listed, trace, store0, rmFailed,
                   readerVars, sigVars, snifferVars>>

\* Lines 211-213: close(done), the error is logged, one second of sleep.
Recover ==
    /\ alive /\ pc.main = "Recovering"
    /\ Goto("main", "Subscribe")
    /\ UNCHANGED <<alive, targetInterfaceIndex, reachableNeighbors, mu, routes, call,
                   update, loadLeft, listed, trace, store0, rmFailed,
                   readerVars, sigVars, snifferVars>>

\* main, lines 61-84: the HTTP server, the signal handler and the pinger are
\* started, then MonitorNeighbors runs.
MainStart ==
    /\ alive /\ pc.main = "MainStart"
    /\ pc' = [main |-> "Subscribe", pinger |-> "Idle", api |-> "Idle", sig |-> "Waiting"]
    /\ UNCHANGED <<alive, targetInterfaceIndex, reachableNeighbors, mu, routes, call,
                   update, loadLeft, listed, trace, store0, rmFailed, readerVars, sigVars, snifferVars>>

\* The steps of a manager bound to one interface: every entry it sees has that
\* link index, so AddNeighbor never finds a changed one.
MonitorBoundNext ==
    \/ MainStart
    \/ Subscribe \/ Receive
    \/ ChannelClosed \/ Recover
    \/ AddLock \/ AddStore \/ AddInstall \/ AddReturn
    \/ RemoveLock \/ RemoveWithdraw \/ RemoveReturn

MainBoundNext == InitNeighList \/ InitLoop \/ InitDone \/ MonitorBoundNext

MainNext == MainBoundNext \/ AddRemoveOld

----------------------------------------------------------------------------
\* ListNeighborsHandler: the response to GET /neighbors.

\* The bytes of the textual addresses, which Go compares with <.
Bytes(str) ==
    CASE str = "10.10.10.10" -> <<49, 48, 46, 49, 48, 46, 49, 48, 46, 49, 48>>
      [] str = "2001:db8::1" -> <<50, 48, 48, 49, 58, 100, 98, 56, 58, 58, 49>>
      [] str = "169.254.0.1" -> <<49, 54, 57, 46, 50, 53, 52, 46, 48, 46, 49>>
      [] str = "fe80::1" -> <<102, 101, 56, 48, 58, 58, 49>>
      [] OTHER -> <<60, 110, 105, 108, 62>>

RECURSIVE BytesLess(_, _)
BytesLess(a, b) ==
    IF b = << >> THEN FALSE
    ELSE IF a = << >> THEN TRUE
    ELSE IF Head(a) # Head(b) THEN Head(a) < Head(b)
    ELSE BytesLess(Tail(a), Tail(b))

\* Line 82: the less function handed to sort.Slice.
ViewLess_Descending(v, w) == BytesLess(Bytes(w.IP), Bytes(v.IP))

ViewLess(v, w) == BytesLess(Bytes(v.IP), Bytes(w.IP))

\* Lines 68-71: To4() is nil for what is not an IPv4 address.
Afi(ip) == IF ip.fam = 4 THEN "v4" ELSE "v6"

\* Lines 73-78.
NeighborView(n) == [IP |-> String(n.IP), LinkIndex |-> n.LinkIndex, Afi |-> Afi(n.IP)]

\* sort.Slice, lines 81-83: each element is put before the first that is not less.
RECURSIVE Insert(_, _)
Insert(sorted, v) ==
    IF sorted = << >> THEN <<v>>
    ELSE IF ViewLess(Head(sorted), v) THEN <<Head(sorted)>> \o Insert(Tail(sorted), v)
    ELSE <<v>> \o sorted

RECURSIVE SortSlice(_)
SortSlice(output) ==
    IF output = << >> THEN << >> ELSE Insert(SortSlice(Tail(output)), Head(output))

\* Line 67: the orders in which range may visit the keys of the map.
RangeOrders(m) ==
    {order \in [1..Cardinality(DOMAIN m) -> DOMAIN m] :
        \A i, j \in DOMAIN order : order[i] = order[j] => i = j}

\* Lines 64-89: the response built from the snapshot, visited in the given order.
NeighborsResponse(m, order) ==
    LET output == SortSlice([i \in DOMAIN order |-> NeighborView(m[order[i]])])
    IN  [Neighbors |-> output, Count |-> Len(output)]

----------------------------------------------------------------------------
\* ListNeighbors, called by SendPings and by ListNeighborsHandler.

\* Lines 150-153: a new map with every entry of m.
CopyOf(m) == [k \in DOMAIN m |-> m[k]]

\* Line 154: the map handed back is the copy.
ListReturnRef_Alias == "store"

ListReturnRef == "copy"

\* What a reader holds after ListNeighbors returned.
Snapshot(r) == IF resultRef[r] = "store" THEN reachableNeighbors ELSE copyMap[r]

\* Line 147: the lock is taken.
ListLock(r) ==
    /\ alive /\ pc[r] = "Idle" /\ mu = "free"
    /\ mu' = r
    /\ seenAtLock' = [seenAtLock EXCEPT ![r] = reachableNeighbors]
    /\ Goto(r, "ListCopy")
    /\ UNCHANGED <<alive, targetInterfaceIndex, reachableNeighbors, routes, call, update,
                   loadLeft, listed, trace, store0, rmFailed, copyMap, resultRef, sigVars, snifferVars>>

\* Lines 148-154: the entries are copied, the lock is released on return.
ListCopy(r) ==
    /\ alive /\ pc[r] = "ListCopy"
    /\ copyMap' = [copyMap EXCEPT ![r] = CopyOf(reachableNeighbors)]
    /\ resultRef' = [resultRef EXCEPT ![r] = ListReturnRef]
    /\ mu' = "free"
    /\ Goto(r, "Holding")
    /\ UNCHANGED <<alive, targetInterfaceIndex, reachableNeighbors, routes, call, update,
                   loadLeft, listed, trace, store0, rmFailed, seenAtLock, sigVars, snifferVars>>

\* SendPings lines 249-260 / ListNeighborsHandler lines 65-91: the snapshot is
\* used (pinged, or written as the response) and dropped.
Consume(r) ==
    /\ alive /\ pc[r] = "Holding"
    /\ copyMap' = [copyMap EXCEPT ![r] = EmptyMap]
    /\ resultRef' = [resultRef EXCEPT ![r] = "none"]
    /\ seenAtLock' = [seenAtLock EXCEPT ![r] = EmptyMap]
    /\ Goto(r, "Idle")
    /\ UNCHANGED <<alive, targetInterfaceIndex, reachableNeighbors, mu, routes, call,
                   update, loadLeft, listed, trace, store0, rmFailed, sigVars, snifferVars>>

\* SendPings lines 244-261: one round. ListNeighbors runs its critical section
\* (lock, copy, unlock), every neighbor of the copy is pinged, failures are
\* logged, the copy is dropped: nothing the other goroutines see is changed.
PingRound ==
    /\ alive /\ pc.pinger = "Idle" /\ mu = "free"
    /\ UNCHANGED vars

ReaderNext == PingRound \/ \E r \in Readers : ListLock(r) \/ ListCopy(r) \/ Consume(r)

----------------------------------------------------------------------------
\* The signal handler of main and Cleanup.

\* main lines 76-78 and Cleanup lines 265-266: a signal arrives, Cleanup is
\* called and takes the lock for the whole of its run.
CleanupLock ==
    /\ alive /\ pc.sig = "Waiting" /\ mu = "free"
    /\ mu' = "sig"
    /\ cleanupTodo' = DOMAIN reachableNeighbors
    /\ cleanupLog' = << >>
    /\ Goto("sig", "CleanupLoop")
    /\ UNCHANGED <<alive, targetInterfaceIndex, reachableNeighbors, routes, call, update,
                   loadLeft, listed, trace, store0, rmFailed, readerVars, snifferVars>>

\* Lines 269-272: after an error the loop continues with the entries left.
CleanupLeft_StopOnError(todo, k, ok) == IF ok THEN todo \ {k} ELSE {}

CleanupLeft(todo, k, ok) == todo \ {k}

\* Lines 268-274: the route of one more entry is withdrawn; an error is logged.
CleanupStep ==
    /\ alive /\ pc.sig = "CleanupLoop"
    /\ \E k \in cleanupTodo, ok \in BOOLEAN :
        LET n == reachableNeighbors[k]
        IN  /\ routes' = RemoveRoute(routes, n.IP, n.LinkIndex, ok)
            /\ cleanupLog' = Append(cleanupLog, Step("RemoveRoute", n.IP, n.LinkIndex, ok))
            /\ cleanupTodo' = CleanupLeft(cleanupTodo, k, ok)
            /\ rmFailed' = (rmFailed \/ ~ok)
    /\ UNCHANGED <<alive, targetInterfaceIndex, reachableNeighbors, mu, pc, call, update,
                   loadLeft, listed, trace, store0, readerVars, snifferVars>>

\* Line 275: the loop is over, the deferred Unlock runs, Cleanup returns.
CleanupReturn ==
    /\ alive /\ pc.sig = "CleanupLoop" /\ cleanupTodo = {}
    /\ mu' = "free"
    /\ cleanupLog' = << >>
    /\ Goto("sig", "Exit")
    /\ UNCHANGED <<alive, targetInterfaceIndex, reachableNeighbors, routes, call, update,
                   loadLeft, listed, trace, store0, rmFailed, readerVars, cleanupTodo, snifferVars>>

\* main line 79: os.Exit(0).
Exit ==
    /\ alive /\ pc.sig = "Exit"
    /\ Exited

SigNext == CleanupLock \/ CleanupStep \/ CleanupReturn \/ Exit

----------------------------------------------------------------------------
\* StartSnifferManager: the scan of the tap interfaces, every 30 seconds.

\* getTapInterfaces: the names under /sys/class/net that match.
getTapInterfaces == {name \in present \cup OtherNames : IsTap(name)}

\* Line 196: the interfaces of the scan that have no registry entry.
NewSniffers_RestartExited(reg, current) ==
    {i \in current : i \notin DOMAIN reg \/ workers[reg[i].ctx].pc = "Done"}

NewSniffers(reg, current) == {i \in current : i \notin DOMAIN reg}

\* Line 210: the registry entries whose interface the scan did not see.
StaleSniffers_None(reg, current) == {}

StaleSniffers(reg, current) == {i \in DOMAIN reg : i \notin current}

NewWorker(iface) == [iface |-> iface, pc |-> "WaitUp", sawUp |-> FALSE]

\* Lines 188-193, after the sleep of the previous round; ReadDir failing is fatal.
ScanList ==
    /\ alive /\ pcS \in {"List", "Sleep"} /\ clock < MaxScans
    /\ \E ok \in BOOLEAN :
          IF ok
          THEN /\ currentSet' = getTapInterfaces
               /\ clock' = clock + 1
               /\ scan0' = [reg |-> activeSniffers, cancels |-> cancelCalls,
                            nworkers |-> Len(workers)]
               /\ pcS' = "Start"
               /\ UNCHANGED <<present, activeSniffers, workers, cancelCalls, kernelVars,
                              engineVars>>
          ELSE Exited

\* Lines 195-207: one iteration that finds a new interface, or the end of the loop.
ScanStart ==
    /\ alive /\ pcS = "Start"
    /\ IF NewSniffers(activeSniffers, currentSet) = {}
       THEN /\ pcS' = "Stop"
            /\ UNCHANGED <<activeSniffers, workers, cancelCalls>>
       ELSE /\ Len(workers) < MaxWorkers
            /\ \E i \in NewSniffers(activeSniffers, currentSet) :
                  /\ activeSniffers' = MapPut(activeSniffers, i,
                                              [ctx |-> Len(workers) + 1, StartedAt |-> clock])
                  /\ workers' = Append(workers, NewWorker(i))
                  /\ cancelCalls' = Append(cancelCalls, 0)
            /\ UNCHANGED pcS
    /\ UNCHANGED <<present, currentSet, clock, scan0, kernelVars, engineVars>>

\* Lines 209-217: one iteration that finds a stale entry, or the end of the loop.
ScanStop ==
    /\ alive /\ pcS = "Stop"
    /\ IF StaleSniffers(activeSniffers, currentSet) = {}
       THEN /\ pcS' = "Sleep"
            /\ UNCHANGED <<activeSniffers, cancelCalls>>
       ELSE /\ \E i \in StaleSniffers(activeSniffers, currentSet) :
                  /\ cancelCalls' = [cancelCalls EXCEPT ![activeSniffers[i].ctx] = @ + 1]
                  /\ activeSniffers' = MapDelete(activeSniffers, i)
            /\ UNCHANGED pcS
    /\ UNCHANGED <<present, currentSet, clock, scan0, workers, kernelVars, engineVars>>

\* The environment creates and deletes tap interfaces.
TapAppear ==
    /\ alive
    /\ \E i \in TapNames \ present : present' = present \cup {i}
    /\ UNCHANGED <<activeSniffers, pcS, currentSet, clock, scan0, workers, cancelCalls,
                   kernelVars, engineVars>>

TapVanish ==
    /\ alive
    /\ \E i \in present : present' = present \ {i}
    /\ UNCHANGED <<activeSniffers, pcS, currentSet, clock, scan0, workers, cancelCalls,
                   kernelVars, engineVars>>

ScanNext == ScanList \/ ScanStart \/ ScanStop \/ TapAppear \/ TapVanish

----------------------------------------------------------------------------
\* sniffNAWithContext: one goroutine per context.

Cancelled(w) == cancelCalls[w] > 0
WorkerDone(w) == [iface |-> workers[w].iface, pc |-> "Done", sawUp |-> FALSE]
WorkerStep(w, rec) ==
    /\ workers' = [workers EXCEPT ![w] = rec]
    /\ UNCHANGED <<present, activeSniffers, pcS, currentSet, clock, scan0, cancelCalls,
                   kernelVars, engineVars>>

\* Lines 124-136: the wait for the interface to be UP. ups[a + 1] is what attempt
\* a reads of the UP flag; a cancelled context ends the select of a failed attempt.
\* The interface comes up at attempt firstUp, or never (0).
RECURSIVE WaitLoop(_, _, _)
WaitLoop(ups, cancelled, attempt) ==
    IF attempt < MaxAttempts
    THEN IF ups[attempt + 1] THEN "up"
         ELSE IF cancelled THEN "cancelled"
         ELSE WaitLoop(ups, cancelled, attempt + 1)
    ELSE "exhausted"

\* Lines 137-138: where the worker goes when the loop is over.
AfterWait(outcome) == IF outcome = "cancelled" THEN "Done" ELSE "Open"

WorkerWait(w) ==
    /\ alive /\ workers[w].pc = "WaitUp"
    /\ \E firstUp \in 0..MaxAttempts :
          LET ups == [a \in 1..MaxAttempts |-> firstUp # 0 /\ a >= firstUp]
              outcome == WaitLoop(ups, Cancelled(w), 0)
          IN  WorkerStep(w, IF AfterWait(outcome) = "Done" THEN WorkerDone(w)
                            ELSE [workers[w] EXCEPT !.pc = "Open",
                                                    !.sawUp = (outcome = "up")])

\* Lines 138-149: pcap.OpenLive and SetBPFFilter, either of which may fail.
WorkerOpen(w) ==
    /\ alive /\ workers[w].pc = "Open"
    /\ \E ok \in BOOLEAN :
          WorkerStep(w, IF ok THEN [workers[w] EXCEPT !.pc = "Capture"] ELSE WorkerDone(w))

\* Lines 157-159: the context is done.
WorkerStopped(w) ==
    /\ alive /\ workers[w].pc = "Capture" /\ Cancelled(w)
    /\ WorkerStep(w, WorkerDone(w))

\* Lines 160-163: the packet source is closed.
WorkerEOF(w) ==
    /\ alive /\ workers[w].pc = "Capture"
    /\ WorkerStep(w, WorkerDone(w))

WorkerNext ==
    \E w \in 1..Len(workers) :
        WorkerWait(w) \/ WorkerOpen(w) \/ WorkerStopped(w) \/ WorkerEOF(w)

----------------------------------------------------------------------------
\* handlePacket: what a capturing worker does with a packet.

\* The ICMPv6 payload: a target link-layer address option (type 2), the same
\* option cut short, and a source link-layer address option (type 1).
OptionMAC == <<170, 170, 170, 170, 170, 1>>
EthernetMAC == <<204, 204, 204, 204, 204, 2>>
NoMAC == << >>
Payloads == {<<2, 1>> \o OptionMAC, <<2, 1, 170>>, <<1, 1>> \o OptionMAC}

\* The layers gopacket decoded, as far as handlePacket reads them.
NeighborAdvertisements ==
    [ipv6 : {TRUE}, na : {TRUE}, eth : BOOLEAN, src : {ipV6, ipLL6},
     target : {ipV6, ipLL6}, payload : Payloads]
Packets ==
    NeighborAdvertisements \cup
    {[ipv6 |-> FALSE, na |-> TRUE, eth |-> TRUE, src |-> ipV6, target |-> ipV6,
      payload |-> <<2, 1>> \o OptionMAC],
     [ipv6 |-> TRUE, na |-> FALSE, eth |-> TRUE, src |-> ipV6, target |-> ipV6,
      payload |-> <<2, 1>> \o OptionMAC]}

\* Lines 39-61: an entry for the address in REACHABLE, STALE, DELAY or PROBE;
\* false when the table cannot be listed.
neighborAlreadyValid(kn, ip, listOk) ==
    /\ listOk
    /\ \E k \in DOMAIN kn :
          /\ k[1] = ip
          /\ kn[k] \in {NUD_REACHABLE, NUD_STALE, NUD_DELAY, NUD_PROBE}

\* Lines 108-118: the MAC of the option, else of the Ethernet header, else none.
PacketMAC(pkt) ==
    IF Len(pkt.payload) >= 8 /\ pkt.payload[1] = 2 THEN SubSeq(pkt.payload, 3, 8)
    ELSE IF pkt.eth THEN EthernetMAC
    ELSE NoMAC

\* Lines 99-101: a link-local source or target ends the handling.
PacketLinkLocal_Ignored(pkt) == FALSE

PacketLinkLocal(pkt) == IsLinkLocalUnicast(pkt.src) \/ IsLinkLocalUnicast(pkt.target)

\* Lines 90-101: the packet has both layers and no link-local address.
PacketAccepted(pkt) == pkt.ipv6 /\ pkt.na /\ ~PacketLinkLocal(pkt)

\* Lines 63-83: the netlink.Neigh that addNeighborEntry hands to NeighSet.
NeighEntry_Stale(ip, mac, linkIndex) ==
    [IP |-> ip, HardwareAddr |-> mac, LinkIndex |-> linkIndex, State |-> NUD_STALE]

NeighEntry(ip, mac, linkIndex) ==
    [IP |-> ip, HardwareAddr |-> mac, LinkIndex |-> linkIndex, State |-> NUD_REACHABLE]

\* addNeighborEntry: LinkByName resolves the insertion interface, the one the
\* manager is bound to; NeighSet is called, and the kernel may refuse the entry.
\* What the kernel and the packet were like when NeighSet is called for it.
PacketSeen(pkt, kn) ==
    IF IsLinkLocalUnicast(pkt.src) \/ IsLinkLocalUnicast(pkt.target) THEN "linklocal"
    ELSE IF \E k \in DOMAIN kn :
               k[1] = pkt.target /\ kn[k] \in {NUD_REACHABLE, NUD_STALE, NUD_DELAY, NUD_PROBE}
         THEN "valid"
    ELSE "fresh"

addNeighborEntry(ip, mac, seen) ==
    \E linkOk \in BOOLEAN, setOk \in BOOLEAN :
        IF linkOk
        THEN LET e == NeighEntry(ip, mac, targetInterfaceIndex)
             IN  /\ injected' = injected \cup {e}
                 /\ written' = written \cup {seen}
                 /\ kneigh' = IF setOk /\ <<e.IP, e.LinkIndex>> \in DOMAIN kneigh
                              THEN [kneigh EXCEPT ![<<e.IP, e.LinkIndex>>] = e.State]
                              ELSE kneigh
        ELSE UNCHANGED kernelVars

\* Lines 160-164 with handlePacket, lines 85-121.
WorkerPacket(w) ==
    /\ alive /\ workers[w].pc = "Capture"
    /\ \E pkt \in Packets :
          IF PacketAccepted(pkt)
          THEN \E listOk \in BOOLEAN :
                  IF ~neighborAlreadyValid(kneigh, pkt.target, listOk)
                         /\ PacketMAC(pkt) # NoMAC
                  THEN addNeighborEntry(pkt.target, PacketMAC(pkt),
                                        PacketSeen(pkt, kneigh))
                  ELSE UNCHANGED kernelVars
          ELSE UNCHANGED kernelVars
    /\ UNCHANGED <<scanVars, engineVars>>

\* The kernel's own neighbor discovery moves an entry to another state.
KernelNud ==
    /\ \E k \in KernelKeys, st \in KernelStates : kneigh' = [kneigh EXCEPT ![k] = st]
    /\ UNCHANGED <<injected, written, scanVars, engineVars>>

CaptureNext == \E w \in 1..Len(workers) : WorkerPacket(w)

PacketNext == CaptureNext \/ KernelNud

----------------------------------------------------------------------------
\* The engine: the main goroutine and the signal handler.
Next == MainNext \/ SigNext

Spec == Init /\ [][Next]_vars

\* The engine with the goroutines that read the store.
ReaderSpec == Init /\ [][Next \/ ReaderNext]_vars

\* The sniffer manager and its workers, started by main() with --sniffer.
SnifferStart == EngineInit(TRUE) /\ SnifferInit(TRUE)
SnifferSpec == SnifferStart /\ [][ScanNext \/ WorkerNext]_vars

\* The engine beside a worker that captures on tap0: the state SnifferSpec is in
\* after the first scan when the interface is up and pcap opens it.
CapturingOn ==
    /\ present = {"tap0"}
    /\ activeSniffers = MapPut(<< >>, "tap0", [ctx |-> 1, StartedAt |-> 1])
    /\ pcS = "Sleep"
    /\ currentSet = {"tap0"}
    /\ clock = 1
    /\ scan0 = [reg |-> << >>, cancels |-> << >>, nworkers |-> 0]
    /\ workers = <<[iface |-> "tap0", pc |-> "Capture", sawUp |-> TRUE]>>
    /\ cancelCalls = <<0>>
    /\ kneigh = [k \in KernelKeys |-> 0]
    /\ injected = {}
    /\ written = {}

Capturing == EngineInit(TRUE) /\ CapturingOn

SystemSpec == Capturing /\ [][MainBoundNext \/ CaptureNext]_vars

\* The same once InitializeNeighborTable has returned with nothing loaded
\* (NeighList failed or listed nothing): main goes on to MonitorNeighbors
\* (line 84) on the main goroutine, which the Go scheduler keeps running while
\* a step of it is possible.
Monitoring == EngineInitAt(TRUE, "MainStart") /\ CapturingOn

SystemLiveSpec ==
    /\ Monitoring
    /\ [][MonitorBoundNext \/ CaptureNext]_vars
    /\ WF_vars(MonitorBoundNext)

\* The capturing worker alone, beside a kernel that moves its neighbor entries
\* from state to state.
PacketSpec == Capturing /\ [][PacketNext]_vars

----------------------------------------------------------------------------
\* Properties.

TraceOps == [i \in 1..Len(trace) |-> trace[i].op]
CallKey == String(call.ip)
InCall == call.op # "none"
OldLink == call.neighbor.LinkIndex

\* C1: when AddNeighbor returns, the store lock is not held by the returning
\* goroutine, so no later Add, Remove, ListNeighbors or Cleanup is blocked.
C1_LockReleasedWhenAddReturns ==
    (alive /\ pc.main = "AddDone") => mu # "main"

\* C2: with no call in progress and no failed route removal so far, an address
\* that is absent from the store has no host route on any link index.
C2_AbsentHasNoRoute ==
    (alive /\ ~InCall /\ ~rmFailed) =>
        \A ip \in IPs, l \in Links :
            String(ip) \notin DOMAIN reachableNeighbors => <<ip, l>> \notin routes

\* C3: in an Add that changes the link index of a stored address the old route
\* is removed, then the entry is replaced, then the new route is installed;
\* the installation is reached only with the old route gone.
C3_MigrationOrder ==
    (alive /\ call.op = "Add" /\ call.shouldRemoveRoute) =>
        /\ pc.main = "AddStore" =>
            /\ TraceOps = <<"Add", "RemoveRoute">>
            /\ trace[2].ok /\ trace[2].linkIndex = OldLink
            /\ reachableNeighbors[CallKey].LinkIndex = OldLink
        /\ pc.main = "AddRoute" =>
            /\ TraceOps = <<"Add", "RemoveRoute", "Store">>
            /\ trace[2].ok
            /\ reachableNeighbors[CallKey].LinkIndex = call.linkIndex
            /\ <<call.ip, OldLink>> \notin routes
        /\ (pc.main = "AddDone" /\ Len(trace) > 2) =>
            /\ TraceOps = <<"Add", "RemoveRoute", "Store", "AddRoute">>
            /\ trace[2].ok
            /\ trace[4].linkIndex = call.linkIndex
            /\ <<call.ip, OldLink>> \notin routes

C3_Witness ==
    /\ pc.main = "AddDone" /\ call.shouldRemoveRoute
    /\ Len(trace) = 4 /\ trace[4].ok
    /\ <<call.ip, call.linkIndex>> \in routes

\* C4: when the removal of the old route fails, Add returns with the store as
\* it was (the old link index kept) and without a route-install call.
C4_FailedRemovalKeepsStore ==
    (alive /\ pc.main = "AddDone" /\ call.shouldRemoveRoute /\ ~trace[2].ok) =>
        /\ reachableNeighbors = store0
        /\ reachableNeighbors[CallKey].LinkIndex = OldLink
        /\ TraceOps = <<"Add", "RemoveRoute">>

C4_Witness ==
    /\ pc.main = "AddDone" /\ call.shouldRemoveRoute /\ ~trace[2].ok
    /\ OldLink # call.linkIndex

\* C5: Add of an address the store holds with the same link index changes
\* nothing: the store is as before, no route call is made.
C5_AddIdempotent ==
    (alive /\ call.op = "Add" /\ CallKey \in DOMAIN store0
        /\ store0[CallKey].LinkIndex = call.linkIndex) =>
        /\ pc.main \in {"AddLock", "AddDone"}
        /\ reachableNeighbors = store0
        /\ TraceOps = <<"Add">>

C5_Witness ==
    /\ pc.main = "AddDone" /\ call.op = "Add" /\ CallKey \in DOMAIN store0
    /\ store0[CallKey].LinkIndex = call.linkIndex
    /\ <<call.ip, call.linkIndex>> \in routes

\* C6: Remove of an address that is not in the store changes nothing: the
\* store is as before and no route-removal call is made.
C6_RemoveAbsentIsNoop ==
    (alive /\ call.op = "Remove" /\ CallKey \notin DOMAIN store0) =>
        /\ pc.main \in {"RemoveLock", "RemoveDone"}
        /\ reachableNeighbors = store0
        /\ trace[Len(trace)].op = "Remove"

C6_Witness ==
    /\ pc.main = "RemoveDone" /\ call.op = "Remove" /\ CallKey \notin DOMAIN store0
    /\ \E l \in Links : <<call.ip, l>> \in routes

\* C7: what ListNeighbors returned is the store as it was when the reader held
\* the lock, whatever Add, Remove and Cleanup have done since.
C7_SnapshotIndependent ==
    \A r \in Readers :
        (alive /\ pc[r] = "Holding") => Snapshot(r) = seenAtLock[r]

C7_Witness ==
    \E r \in Readers :
        /\ pc[r] = "Holding"
        /\ DOMAIN Snapshot(r) # {}
        /\ DOMAIN reachableNeighbors = {}

\* C8: in every reachable state neither the store nor the set of entries the
\* packet handler wrote to the kernel holds a link-local address.
C8_NoLinkLocal ==
    /\ \A k \in DOMAIN reachableNeighbors :
          /\ ~IsLinkLocalUnicast(reachableNeighbors[k].IP)
          /\ k \notin {String(ipLL4), String(ipLL6)}
    /\ \A e \in injected : ~IsLinkLocalUnicast(e.IP)
    /\ \A k \in DOMAIN kneigh : kneigh[k] # 0 => ~IsLinkLocalUnicast(k[1])

C8_Witness ==
    /\ String(ipV4) \in DOMAIN reachableNeighbors
    /\ String(ipV6) \in DOMAIN reachableNeighbors
    /\ \E e \in injected : e.IP = ipV6 /\ kneigh[<<e.IP, e.LinkIndex>>] = NUD_REACHABLE

\* C9: while the initial load or the event processing works on an entry flagged
\* externally-learned, the call it makes is never Add, whatever the entry's
\* state; and when the Remove it makes for an event returns, the address is not
\* in the store.
C9_ExternallyLearned ==
    (alive /\ InCall /\ BitAnd(update.Flags, NTF_EXT_LEARNED) # 0) =>
        /\ call.caller = "update"
        /\ call.op = "Remove"
        /\ call.ip = update.IP
        /\ TraceOps[1] = "Remove"
        /\ pc.main = "RemoveDone" => CallKey \notin DOMAIN reachableNeighbors

C9_Witness ==
    /\ pc.main = "RemoveDone"
    /\ BitAnd(update.Flags, NTF_EXT_LEARNED) # 0
    /\ update.State = NUD_REACHABLE
    /\ CallKey \in DOMAIN store0
    /\ CallKey \notin DOMAIN reachableNeighbors

\* C10: when a scan is over, the registry's keys are the interfaces the scan
\* saw; each interface that had no entry has a new worker of its own, started
\* at the time of this scan; each entry whose interface was not seen is gone and
\* its cancel function was called once; each entry whose interface was seen
\* is as it was, and its cancel function was not called.
ScanNew == NewSniffers(scan0.reg, currentSet)
ScanGone == DOMAIN scan0.reg \ currentSet
ScanKept == DOMAIN scan0.reg \cap currentSet
C10_RegistryFollowsScan ==
    (alive /\ pcS = "Sleep") =>
        /\ DOMAIN activeSniffers = currentSet
        /\ Len(workers) = scan0.nworkers + Cardinality(ScanNew)
        /\ \A i \in ScanNew :
              /\ activeSniffers[i].ctx \in (scan0.nworkers + 1)..Len(workers)
              /\ workers[activeSniffers[i].ctx].iface = i
              /\ activeSniffers[i].StartedAt = clock
              /\ cancelCalls[activeSniffers[i].ctx] = 0
              /\ \A j \in ScanNew : activeSniffers[j].ctx = activeSniffers[i].ctx => j = i
        /\ \A i \in ScanGone :
              /\ i \notin DOMAIN activeSniffers
              /\ cancelCalls[scan0.reg[i].ctx] = 1
        /\ \A i \in ScanKept :
              /\ activeSniffers[i] = scan0.reg[i]
              /\ cancelCalls[scan0.reg[i].ctx] = 0
        /\ \A w \in 1..scan0.nworkers :
              (\A i \in ScanGone : scan0.reg[i].ctx # w) =>
                  cancelCalls[w] = scan0.cancels[w]

C10_Witness ==
    /\ pcS = "Sleep"
    /\ DOMAIN scan0.reg = {"tap0", "tap1"}
    /\ currentSet = {"tap1"}
    /\ DOMAIN activeSniffers = {"tap1"}
    /\ activeSniffers["tap1"].StartedAt = 2
    /\ clock = 3
    /\ cancelCalls = <<1, 0>>

\* C11: the packet handler calls NeighSet neither for a Neighbor Advertisement
\* whose target has a kernel entry in REACHABLE, STALE, DELAY or PROBE, nor for
\* one whose source or target address is link-local.
C11_NoWriteWhenValidOrLinkLocal ==
    /\ "valid" \notin written
    /\ "linklocal" \notin written

\* C12: when the loop of Cleanup is over, it has called RemoveRoute exactly once
\* for every entry of the store, with the entry's stored link index, whichever
\* of the calls failed.
C12_CleanupAttemptsAll ==
    (alive /\ pc.sig = "CleanupLoop" /\ cleanupTodo = {}) =>
        /\ Len(cleanupLog) = Cardinality(DOMAIN reachableNeighbors)
        /\ \A k \in DOMAIN reachableNeighbors :
              /\ Cardinality({i \in 1..Len(cleanupLog) :
                                 cleanupLog[i].ip = reachableNeighbors[k].IP}) = 1
              /\ \A i \in 1..Len(cleanupLog) :
                    cleanupLog[i].ip = reachableNeighbors[k].IP =>
                        /\ cleanupLog[i].op = "RemoveRoute"
                        /\ cleanupLog[i].linkIndex = reachableNeighbors[k].LinkIndex

C12_Witness ==
    /\ pc.sig = "CleanupLoop" /\ cleanupTodo = {}
    /\ Len(cleanupLog) = 2
    /\ ~cleanupLog[1].ok /\ cleanupLog[2].ok
    /\ <<cleanupLog[1].ip, cleanupLog[1].linkIndex>> \in routes
    /\ <<cleanupLog[2].ip, cleanupLog[2].linkIndex>> \notin routes

\* C13: once Cleanup has started, no Add or Remove of the event loop changes the
\* route table any more, so a route whose withdrawal succeeded in Cleanup is
\* absent from then on, up to the termination of the process.
C13_WithdrawnStaysAbsent ==
    (alive /\ pc.sig = "CleanupLoop") =>
        \A i \in 1..Len(cleanupLog) :
            cleanupLog[i].ok => <<cleanupLog[i].ip, cleanupLog[i].linkIndex>> \notin routes

\* C14: a worker calls pcap.OpenLive, and captures, only after one of its
\* ten attempts saw the interface up; with none it exits without opening.
C14_OpenOnlyAfterUp ==
    \A w \in 1..Len(workers) :
        (alive /\ workers[w].pc \in {"Open", "Capture"}) => workers[w].sawUp

\* C15: when Add returns for an address that was not in the store, the store
\* holds one entry for the address, with the link index passed in, whether the
\* installation of the route succeeded or failed; the other entries are as before.
C15_NewAddressStored ==
    (alive /\ pc.main = "AddDone" /\ call.op = "Add" /\ CallKey \notin DOMAIN store0) =>
        /\ DOMAIN reachableNeighbors = DOMAIN store0 \cup {CallKey}
        /\ reachableNeighbors[CallKey] = Neighbor(call.ip, call.linkIndex)
        /\ \A k \in DOMAIN store0 :
              /\ reachableNeighbors[k] = store0[k]
              /\ reachableNeighbors[k].IP # call.ip

C15_Witness ==
    /\ pc.main = "AddDone" /\ call.op = "Add" /\ CallKey \notin DOMAIN store0
    /\ trace[Len(trace)].op = "AddRoute" /\ ~trace[Len(trace)].ok
    /\ CallKey \in DOMAIN reachableNeighbors
    /\ <<call.ip, call.linkIndex>> \notin routes

\* C16: when Remove returns, the store has no entry for the address, whatever
\* link index was passed in and whether or not the withdrawal of the route
\* succeeded; the entries of the other addresses are as before.
C16_RemovedIsAbsent ==
    (alive /\ pc.main = "RemoveDone" /\ call.op = "Remove") =>
        /\ DOMAIN reachableNeighbors = DOMAIN store0 \ {CallKey}
        /\ \A k \in DOMAIN reachableNeighbors : reachableNeighbors[k] = store0[k]

C16_Witness ==
    /\ pc.main = "RemoveDone" /\ call.op = "Remove"
    /\ CallKey \in DOMAIN store0 /\ store0[CallKey].LinkIndex # call.linkIndex
    /\ trace[Len(trace)].op = "RemoveRoute" /\ ~trace[Len(trace)].ok
    /\ DOMAIN reachableNeighbors # {}

\* C17: the response to a GET on the neighbors endpoint has one element per
\* entry of the snapshot, with the entry's address and link index, afi "v4" for
\* an IPv4 address and "v6" otherwise, count the number of elements, and the
\* elements in ascending order of the textual address; no step of the request
\* changes the store.
ResponseMatches(m, resp) ==
    /\ resp.Count = Len(resp.Neighbors)
    /\ Len(resp.Neighbors) = Cardinality(DOMAIN m)
    /\ \A k \in DOMAIN m :
          \E i \in 1..Len(resp.Neighbors) :
              /\ resp.Neighbors[i].IP = String(m[k].IP)
              /\ resp.Neighbors[i].LinkIndex = m[k].LinkIndex
              /\ resp.Neighbors[i].Afi = (IF m[k].IP \in {ipV4, ipLL4} THEN "v4" ELSE "v6")
    /\ \A i, j \in 1..Len(resp.Neighbors) :
          i < j => BytesLess(Bytes(resp.Neighbors[i].IP), Bytes(resp.Neighbors[j].IP))
HandlerStep ==
    /\ (alive /\ pc.api = "Holding") =>
          \A order \in RangeOrders(Snapshot("api")) :
              ResponseMatches(Snapshot("api"), NeighborsResponse(Snapshot("api"), order))
    /\ (alive' /\ pc.api \in {"Idle", "ListCopy", "Holding"} /\ pc'.api # pc.api) =>
          reachableNeighbors' = reachableNeighbors
C17_NeighborsEndpoint == [][HandlerStep]_vars

C17_Witness ==
    /\ pc.api = "Holding"
    /\ Cardinality(DOMAIN Snapshot("api")) = 2
    /\ \E order \in RangeOrders(Snapshot("api")) :
          /\ order[1] = String(ipV6)
          /\ NeighborsResponse(Snapshot("api"), order).Neighbors[1].IP = String(ipV4)
          /\ NeighborsResponse(Snapshot("api"), order).Neighbors[1].Afi = "v4"
          /\ NeighborsResponse(Snapshot("api"), order).Neighbors[2].Afi = "v6"
          /\ NeighborsResponse(Snapshot("api"), order).Count = 2

\* C18: the monitor loop goes from streaming to recovering only (when the
\* channel closes), from recovering to subscribing only, from subscribing to
\* streaming or, when the subscription fails, to the end of the process; from
\* streaming it otherwise enters the processing of an event, and comes back.
\* The process ends only by a failed subscription or by the signal handler.
MonitorStep ==
    /\ (pc.main = "Streaming" /\ alive') =>
          pc'.main \in {"Streaming", "AddLock", "RemoveLock", "Recovering"}
    /\ (pc.main = "Recovering" /\ alive') => pc'.main \in {"Recovering", "Subscribe"}
    /\ (pc.main = "Subscribe" /\ alive') => pc'.main \in {"Subscribe", "Streaming"}
    /\ (pc.main = "RemoveDone" /\ alive') => pc'.main \in {"RemoveDone", "Streaming"}
    /\ (pc.main = "AddDone" /\ call.caller = "update" /\ alive') =>
          pc'.main \in {"AddDone", "Streaming", "RemoveLock"}
    /\ (alive /\ ~alive') => (pc.main = "Subscribe" \/ pc.sig = "Exit")
C18_MonitorCycle == [][MonitorStep]_vars

C18_Witness ==
    /\ alive /\ pc.main = "Recovering"
    /\ DOMAIN reachableNeighbors # {}
    /\ routes # {}

\* C19: the processing of one kernel event never calls both Add and Remove;
\* an externally-learned event calls Remove only, whatever its state; Add is
\* called only for REACHABLE or STALE, Remove otherwise only for FAILED, and an
\* event that is none of these causes no call at all.
C19_AddOrRemove ==
    (alive /\ InCall /\ call.caller = "update") =>
        /\ ~(\E i, j \in 1..Len(trace) : trace[i].op = "Add" /\ trace[j].op = "Remove")
        /\ BitAnd(update.Flags, NTF_EXT_LEARNED) # 0 => call.op = "Remove"
        /\ call.op = "Add" =>
              /\ update.State \in {NUD_REACHABLE, NUD_STALE}
              /\ BitAnd(update.Flags, NTF_EXT_LEARNED) = 0
        /\ call.op = "Remove" =>
              \/ update.State = NUD_FAILED
              \/ BitAnd(update.Flags, NTF_EXT_LEARNED) # 0

C19_Witness ==
    /\ pc.main = "RemoveDone" /\ call.caller = "update"
    /\ update.State = NUD_FAILED /\ update.Flags = 0
    /\ \A i \in 1..Len(trace) : trace[i].op # "Add"
    /\ CallKey \in DOMAIN store0

\* C20: with a bound target interface every call the engine makes, every store
\* entry and every route carries the bound link index, so an event of another
\* link changes nothing; with no interface bound an event is applied with the
\* link index it carries, whichever it is.
C20_BoundInterfaceOnly ==
    alive =>
        /\ targetInterfaceIndex > 0 =>
              /\ \A k \in DOMAIN reachableNeighbors :
                    reachableNeighbors[k].LinkIndex = targetInterfaceIndex
              /\ \A r \in routes : r[2] = targetInterfaceIndex
              /\ InCall => call.linkIndex = targetInterfaceIndex
        /\ (targetInterfaceIndex <= 0 /\ InCall) => call.linkIndex = update.LinkIndex

C20_Witness ==
    /\ targetInterfaceIndex > 0
    /\ pc.main = "AddDone" /\ call.caller = "update"
    /\ Cardinality(DOMAIN reachableNeighbors) = 2
    /\ Cardinality(routes) = 2

C20_UnboundWitness ==
    /\ targetInterfaceIndex <= 0
    /\ \E j, k \in DOMAIN reachableNeighbors :
          reachableNeighbors[j].LinkIndex # reachableNeighbors[k].LinkIndex

\* C21: no route call is made to the kernel by a goroutine that holds the
\* store lock: a step in which the engine goroutine calls AddRoute or
\* RemoveRoute starts with the lock not held by it, and so does a step in which
\* Cleanup withdraws a route.
RouteCallByMain ==
    /\ Len(trace') = Len(trace) + 1
    /\ trace'[Len(trace')].op \in {"AddRoute", "RemoveRoute"}

RouteCallBySig == Len(cleanupLog') = Len(cleanupLog) + 1

NoRouteCallUnderLock ==
    /\ RouteCallByMain => mu # "main"
    /\ RouteCallBySig => mu # "sig"

C21_LockOnlyForMapAccess == [][NoRouteCallUnderLock]_vars

\* An AddNeighbor call has run to its end for an address that was in the
\* store when the call began, the shutdown not having begun.
ReAdd ==
    /\ alive /\ pc.main = "AddDone" /\ call.op = "Add" /\ pc.sig = "Waiting"
    /\ CallKey \in DOMAIN store0

RouteAttempts == {i \in 1..Len(trace) : trace[i].op = "AddRoute"}

\* C22 as stated: a REACHABLE or STALE event for an address whose entry has
\* no route, on the link index of the entry, leads to a new installation
\* attempt.
C22_NextEventRetries ==
    (ReAdd /\ store0[CallKey].LinkIndex = call.linkIndex
           /\ <<call.ip, call.linkIndex>> \notin routes) => RouteAttempts # {}

\* C22, amended: an event on the link index of the entry is a no-op, the
\* entry stays and no installation is attempted, whether or not the entry has
\* its route; an event on another link index whose removal of the old route
\* succeeds rewrites the entry and attempts the installation on the new link.
C22_RetryOnlyOnNewLink ==
    ReAdd =>
        /\ store0[CallKey].LinkIndex = call.linkIndex =>
              /\ RouteAttempts = {}
              /\ reachableNeighbors = store0
        /\ (/\ store0[CallKey].LinkIndex # call.linkIndex
            /\ trace[Len(trace)].op # "RemoveRoute") =>
              /\ trace[Len(trace)] \in {Step("AddRoute", call.ip, call.linkIndex, ok) : ok \in BOOLEAN}
              /\ reachableNeighbors[CallKey].LinkIndex = call.linkIndex

C22_Witness ==
    /\ ReAdd /\ call.caller = "update"
    /\ store0[CallKey].LinkIndex = call.linkIndex
    /\ <<call.ip, call.linkIndex>> \notin routes
    /\ ~rmFailed /\ RouteAttempts = {}

\* The event the engine is processing is the kernel's event for an entry the
\* packet handler wrote.
InjectedEvent ==
    /\ alive /\ InCall /\ call.caller = "update"
    /\ \E e \in injected :
          /\ update.IP = e.IP /\ update.LinkIndex = e.LinkIndex
          /\ update.State = e.State /\ update.Flags = 0

InjectedStored ==
    /\ CallKey \in DOMAIN reachableNeighbors
    /\ reachableNeighbors[CallKey].LinkIndex = targetInterfaceIndex

\* A step of the packet handler that writes a kernel entry writes one entry, in
\* state REACHABLE, on the insertion interface, for an address that is not
\* link-local, and touches nothing of the engine.
HandlerWrite ==
    injected' # injected =>
        /\ \E e \in injected' :
              /\ injected' = injected \cup {e}
              /\ e.State = NUD_REACHABLE /\ e.LinkIndex = targetInterfaceIndex
              /\ ~IsLinkLocalUnicast(e.IP) /\ e.HardwareAddr # NoMAC
        /\ UNCHANGED engineVars

Loadable ==
    {n \in listed : /\ n.IP # NilIP /\ ~IsLinkLocalUnicast(n.IP)
                    /\ BitAnd(n.Flags, NTF_EXT_LEARNED) = 0
                    /\ n.State \in {NUD_REACHABLE, NUD_STALE}}

\* C24: between two entries of the initial load, and when the load is over,
\* the addresses in the store are those of the loadable entries visited so
\* far: an entry in another state, externally-learned, link-local or without
\* address is not added and does not stop the loop.
C24_InitialLoad ==
    (alive /\ pc.main = "InitLoop") =>
        DOMAIN reachableNeighbors = {String(n.IP) : n \in Loadable}

C24_Witness ==
    /\ alive /\ pc.main = "InitLoop" /\ loadLeft = 0 /\ ~rmFailed
    /\ Cardinality(listed) = 2 /\ Cardinality(Loadable) = 1
    /\ \E n \in listed \ Loadable : n.State = NUD_FAILED /\ n.IP \notin {NilIP, ipLL4, ipLL6}
    /\ \A n \in Loadable : <<n.IP, n.LinkIndex>> \in routes

RegistryStep ==
    /\ (workers' # workers /\ Len(workers') = Len(workers)) =>
          activeSniffers' = activeSniffers
    /\ Len(workers') > Len(workers) =>
          LET i == workers'[Len(workers')].iface
          IN  /\ i \in currentSet /\ i \notin DOMAIN activeSniffers
              /\ DOMAIN activeSniffers' = DOMAIN activeSniffers \cup {i}
              /\ activeSniffers'[i].ctx = Len(workers')

C26_OneRoutePerAddress ==
    (alive /\ ~rmFailed) =>
        \A ip \in IPs :
            /\ \A l1, l2 \in Links :
                  (<<ip, l1>> \in routes /\ <<ip, l2>> \in routes) => l1 = l2
            /\ (~InCall /\ String(ip) \in DOMAIN reachableNeighbors) =>
                  \A l \in Links :
                      <<ip, l>> \in routes => l = reachableNeighbors[String(ip)].LinkIndex

====
